---- MODULE Spec2Model ----
(***************************************************************************)
(* A model of the storage core of camlistore/perkeep:                      *)
(*   - index.BlobSniffer (src/unnamed/part_001, second file of the part)   *)
(*   - the two constructors of the "s3" blobserver storage                 *)
(*     (src/cmd/pk-try-hcl-config/try_hcl_config.go) and the put gate of   *)
(*     the client they build                                               *)
(*   - configs.decodeConfig (src/pkg/configs/config.go) and                *)
(*     configs.extractVars (src/unnamed/part_001, first file of the part)  *)
(*                                                                         *)
(* Byte strings and Go strings are sequences of one-character strings.     *)
(* A Go pointer that may be nil is a sequence of length 0 (nil) or 1.      *)
(***************************************************************************)
EXTENDS Integers, Sequences, FiniteSets, TLC

VARIABLES
    \* ---- one BlobSniffer and the calls made on it
    sn,        \* the BlobSniffer struct
    stream,    \* ghost: every byte ever passed to Write, in call order
    lastOp,    \* ghost: the last method called on sn: "new", "write", "parse"
    nParse,    \* ghost: the number of Parse calls made on sn
    \* ---- two BlobSniffers fed the same bytes in different splits
    data,      \* the byte string both sniffers are fed
    snA,       \* the first sniffer
    posA,      \* how many bytes of data snA has been written
    snB,       \* the second sniffer
    posB,      \* how many bytes of data snB has been written
    callsA,    \* ghost: the Write calls made on snA: 0, 1, or 2 for "several"
    callsB,    \* ghost: the Write calls made on snB: 0, 1, or 2 for "several"
    phase,     \* what the feeder does next: "A", "B", "parseB", "done"
    \* ---- one construction of the s3 storage
    ctor,      \* the constructor called: "hcl" (NewFromHCLConfig) or "json"
               \* (newFromConfigWithTransport)
    config,    \* the configuration it is given
    pc,        \* where the constructor is
    client,    \* the *s3.Client (nil before it is built)
    sto,       \* the *s3Storage (nil before it is built)
    err,       \* the constructor's local err: the last listing's error
    serr,      \* the constructor's local serr: the first listing's error
    ret,       \* what the constructor returned: (blobserver.Storage, error)
    nList,     \* ghost: the ListBucket requests issued
    nLoc,      \* ghost: the BucketLocation requests issued
    nRebind,   \* ghost: the assignments to client.Auth.Hostname
    nWarn,     \* ghost: the warnings logged
    requests,  \* ghost: the requests sent to the service, in order
    \* ---- the put operations of one s3 storage
    gate,      \* the client's PutGate: its capacity and the slots held
    put,       \* where each put operation is: "idle", "waiting", "sending",
               \* "ok", "failed"
    \* ---- one call of decodeConfig
    blocks,    \* content.Blocks: the root blocks of the body, in source order
    bi,        \* how many of them the loop has been through
    cfg,       \* the *Config being filled
    diags,     \* the diagnostics collected
    \* ---- one call of extractVars
    vblocks,   \* content.Blocks: the vars blocks of the body, in source order
    vbi,       \* how many of them the outer loop has been through
    vdone,     \* the attributes of the current block the inner loop has been
               \* through
    vs,        \* the map of values returned
    decls,     \* the map of the ranges of the definitions seen
    vdiags     \* the diagnostics collected

snifferVars == <<sn, stream, lastOp, nParse>>
chunkVars == <<data, snA, posA, snB, posB, callsA, callsB, phase>>
s3Vars == <<ctor, config, pc, client, sto, err, serr, ret, nList, nLoc, nRebind, nWarn,
           requests>>
gateVars == <<gate, put>>
cfgVars == <<blocks, bi, cfg, diags>>
varVars == <<vblocks, vbi, vdone, vs, decls, vdiags>>
vars == <<snifferVars, chunkVars, s3Vars, gateVars, cfgVars, varVars>>

\* What the actions on one group of variables leave alone.
exceptSniffer == <<chunkVars, s3Vars, gateVars, cfgVars, varVars>>
exceptChunk == <<snifferVars, s3Vars, gateVars, cfgVars, varVars>>
exceptS3 == <<snifferVars, chunkVars, gateVars, cfgVars, varVars>>
exceptGate == <<snifferVars, chunkVars, s3Vars, cfgVars, varVars>>
exceptCfg == <<snifferVars, chunkVars, s3Vars, gateVars, varVars>>
exceptVars == <<snifferVars, chunkVars, s3Vars, gateVars, cfgVars>>

----------------------------------------------------------------------------
(* Bounds of the model *)

\* Stand-in for schema.MaxSchemaBlobSize (1 MiB in perkeep.org/pkg/schema,
\* which is outside src/): the size the sniffer's buffer is capped at.
MaxSchemaBlobSize == 3
\* The longest byte slice one Write call is given.
MaxChunk == 2
\* How many bytes beyond MaxSchemaBlobSize a sniffer is written in total.
MaxOver == 1
\* How many Parse calls are made on one sniffer.
MaxParse == 2

\* The longest bucket spec ("bucket" or "bucket/prefix") a configuration gives.
MaxSpecLen == 3

MaxWritten == MaxSchemaBlobSize + MaxOver

\* The bytes. "{" opens a schema document; "a" and "b" each stand for the
\* rest of a document that declares that camliType, up to its closing brace;
\* " " is JSON whitespace; "G" is the first byte of a magic number.
Byte == {"{", "a", "b", " ", "G"}
Tags == {"a", "b"}

RECURSIVE SeqsUpTo(_, _)
SeqsUpTo(S, n) ==
    IF n = 0 THEN {<<>>}
    ELSE LET shorter == SeqsUpTo(S, n - 1)
         IN  shorter \cup {Append(s, x) : s \in {t \in shorter : Len(t) = n - 1}, x \in S}

Chunks == SeqsUpTo(Byte, MaxChunk)

Min(a, b) == IF a < b THEN a ELSE b

TheRef == "sha224-ref"

----------------------------------------------------------------------------
(* Collaborators of the sniffer that live outside src/ *)

\* schema.LikelySchemaBlob: the cheap structural pre-check.
LikelySchemaBlob(buf) == Len(buf) > 0 /\ buf[1] = "{"

\* Where the JSON object of a complete document starts: the buffer is
\* whitespace, "{", a type tag, whitespace, and nothing else.
DocStarts(buf) ==
    {i \in 1..(Len(buf) - 1) :
        /\ buf[i] = "{"
        /\ buf[i + 1] \in Tags
        /\ \A k \in (1..(i - 1)) \cup ((i + 2)..Len(buf)) : buf[k] = " "}

\* schema.BlobFromReader: decode a complete, bounded document. The result is
\* ok with the *schema.Blob, or not ok (the error).
BlobFromReader(ref, buf) ==
    IF Len(buf) <= MaxSchemaBlobSize /\ DocStarts(buf) # {}
    THEN [ok |-> TRUE,
          blob |-> [ref |-> ref, raw |-> buf,
                    type |-> <<buf[(CHOOSE i \in DocStarts(buf) : TRUE) + 1]>>]]
    ELSE [ok |-> FALSE, blob |-> [ref |-> ref, raw |-> <<>>, type |-> <<>>]]

\* schema.Blob.Type
Type(blob) == blob.type

\* magic.MIMEType: the content type by magic number, "" when undetermined.
MagicMIMEType(buf) ==
    IF Len(buf) > 0 /\ buf[1] = "G" THEN <<"image/gif">> ELSE <<>>

----------------------------------------------------------------------------
(* index.BlobSniffer *)

NewBlobSniffer(ref) ==
    [br |-> ref, contents |-> <<>>, written |-> 0, meta |-> <<>>,
     mimeType |-> <<>>, camliType |-> <<>>]

SchemaBlob(s) == [meta |-> s.meta, ok |-> s.meta # <<>>]

\* Write, counting only the bytes it retains.
WriteCountsRetained(s, d) ==
    LET n == Min(MaxSchemaBlobSize - Len(s.contents), Len(d))
    IN  [s EXCEPT !.written = @ + n,
                  !.contents = IF Len(@) < MaxSchemaBlobSize
                               THEN @ \o SubSeq(d, 1, n)
                               ELSE @]

\* Write, appending the whole slice whenever the buffer is below the cap.
WriteUncapped(s, d) ==
    [s EXCEPT !.written = @ + Len(d),
              !.contents = IF Len(@) < MaxSchemaBlobSize THEN @ \o d ELSE @]

\* Write, dropping a slice that does not fit whole.
WriteDropsStraddle(s, d) ==
    [s EXCEPT !.written = @ + Len(d),
              !.contents = IF Len(@) + Len(d) <= MaxSchemaBlobSize
                           THEN @ \o d
                           ELSE @]

Write(s, d) ==
    LET n == Min(MaxSchemaBlobSize - Len(s.contents), Len(d))
    IN  [s EXCEPT !.written = @ + Len(d),
                  !.contents = IF Len(@) < MaxSchemaBlobSize
                               THEN @ \o SubSeq(d, 1, n)
                               ELSE @]

Size(s) == s.written

\* IsTruncated, off by one.
IsTruncatedAtCap(s) == s.written >= MaxSchemaBlobSize

IsTruncated(s) == s.written > MaxSchemaBlobSize

\* Body, without the truncation check.
BodyUnchecked(s) == [bytes |-> s.contents, err |-> <<>>]

Body(s) ==
    IF IsTruncated(s)
    THEN [bytes |-> <<>>, err |-> <<"index.Body: was truncated">>]
    ELSE [bytes |-> s.contents, err |-> <<>>]

MIMEType(s) == s.mimeType

CamliType(s) == s.camliType

\* bufferIsCamliJSON, without the structural pre-check.
bufferIsCamliJSONNoPrecheck(s) ==
    LET r == BlobFromReader(s.br, s.contents)
    IN  IF ~r.ok THEN [ret |-> FALSE, sn |-> s]
        ELSE [ret |-> TRUE, sn |-> [s EXCEPT !.meta = <<r.blob>>]]

\* The result and the sniffer after the call (sn.meta is set on success).
bufferIsCamliJSON(s) ==
    LET buf == s.contents
        r == BlobFromReader(s.br, buf)
    IN  IF ~LikelySchemaBlob(buf) THEN [ret |-> FALSE, sn |-> s]
        ELSE IF ~r.ok THEN [ret |-> FALSE, sn |-> s]
        ELSE [ret |-> TRUE, sn |-> [s EXCEPT !.meta = <<r.blob>>]]

Parse(s) ==
    LET r == bufferIsCamliJSON(s)
    IN  IF r.ret
        THEN [r.sn EXCEPT !.camliType = Type(r.sn.meta[1]),
                          !.mimeType = <<"application/json; camliType=">>
                                       \o Type(r.sn.meta[1])]
        ELSE [r.sn EXCEPT !.mimeType = MagicMIMEType(r.sn.contents)]

----------------------------------------------------------------------------
(* One sniffer under any sequence of Write and Parse calls *)

SnifferInit ==
    /\ sn = NewBlobSniffer(TheRef)
    /\ stream = <<>>
    /\ lastOp = "new"
    /\ nParse = 0

SnifferWrite ==
    \E d \in Chunks :
        /\ Len(stream) + Len(d) <= MaxWritten
        /\ sn' = Write(sn, d)
        /\ stream' = stream \o d
        /\ lastOp' = "write"
        /\ UNCHANGED nParse

SnifferParse ==
    /\ nParse < MaxParse
    /\ sn' = Parse(sn)
    /\ lastOp' = "parse"
    /\ nParse' = nParse + 1
    /\ UNCHANGED stream

----------------------------------------------------------------------------
(* Two sniffers for the same blob ref, fed the same bytes: first snA is     *)
(* written all of data in some split, then snB in some split, then both are *)
(* parsed.                                                                  *)

ChunkStart(d) ==
    /\ data = d
    /\ snA = NewBlobSniffer(TheRef)
    /\ snB = NewBlobSniffer(TheRef)
    /\ posA = 0
    /\ posB = 0
    /\ callsA = 0
    /\ callsB = 0
    /\ phase = "A"

ChunkInit == \E d \in SeqsUpTo(Byte, MaxWritten) : ChunkStart(d)

\* One Write call on snA with the next n bytes of data (n may be 0).
ChunkWriteA ==
    /\ phase = "A"
    /\ \E n \in 0..(Len(data) - posA) :
        /\ snA' = Write(snA, SubSeq(data, posA + 1, posA + n))
        /\ posA' = posA + n
    /\ callsA' = Min(callsA + 1, 2)
    /\ UNCHANGED <<data, snB, posB, callsB, phase>>

\* snA has been written all of data: go on with snB.
ChunkTurn ==
    /\ phase = "A"
    /\ posA = Len(data)
    /\ phase' = "B"
    /\ UNCHANGED <<data, snA, posA, snB, posB, callsA, callsB>>

ChunkWriteB ==
    /\ phase = "B"
    /\ \E n \in 0..(Len(data) - posB) :
        /\ snB' = Write(snB, SubSeq(data, posB + 1, posB + n))
        /\ posB' = posB + n
    /\ callsB' = Min(callsB + 1, 2)
    /\ UNCHANGED <<data, snA, posA, callsA, phase>>

ChunkParseA ==
    /\ phase = "B"
    /\ posB = Len(data)
    /\ snA' = Parse(snA)
    /\ phase' = "parseB"
    /\ UNCHANGED <<data, posA, snB, posB, callsA, callsB>>

ChunkParseB ==
    /\ phase = "parseB"
    /\ snB' = Parse(snB)
    /\ phase' = "done"
    /\ UNCHANGED <<data, snA, posA, posB, callsA, callsB>>

----------------------------------------------------------------------------
(* The s3 storage constructors: NewFromHCLConfig and                        *)
(* newFromConfigWithTransport                                               *)

maxParallelHTTP == 5

\* The characters of a bucket spec.
BucketChar == {"m", "a", "/"}

DefaultHostname == <<"s3.amazonaws.com">>
ConfiguredHostname == <<"s3.example.com">>
\* What the service names as the bucket's place.
RegionHostname == <<"s3-us-west-1.amazonaws.com">>
DefaultCacheSize == 33554432

\* An int64 at its full width: the value q * 2^60 + r, with the top bits q in
\* -8 .. 8 and a small signed rest r. 2^63 - k is (8, -k) and -2^63 + k is
\* (-8, k), so that the order of the values is the order of the pairs.
Int64(q, r) == [q |-> q, r |-> r]

\* cacheSize<<2: the top bits wrap around modulo 2^64.
Shl2(v) ==
    LET wq == ((4 * v.q + 8) % 16) - 8
        r4 == 4 * v.r
    IN  IF wq = -8 /\ r4 < 0 THEN Int64(8, r4) ELSE Int64(wq, r4)

Less64(a, b) == a.q < b.q \/ (a.q = b.q /\ a.r < b.r)

\* The cache sizes a configuration may give: 0, 1, -1, 2^61 and 2^62.
CacheSizes == {Int64(0, 0), Int64(0, 1), Int64(0, -1), Int64(2, 0), Int64(4, 0)}
TheAccessKey == <<"AKIA">>

Configs ==
    [bucket : SeqsUpTo(BucketChar, MaxSpecLen),
     hostname : {<<>>, <<ConfiguredHostname>>},
     cacheSize : {<<>>} \cup {<<v>> : v \in CacheSizes},
     skipStartupCheck : {<<>>, <<TRUE>>, <<FALSE>>},
     accessKey : {TheAccessKey},
     \* whether the body decodes (hcl) or validates (json)
     valid : BOOLEAN]

\* Errors of the s3 client: nil, an *s3.Error, or any other error.
NoErr == [kind |-> "nil", AmazonCode |-> "", UseEndpoint |-> <<>>]
TransportErr == [kind |-> "error", AmazonCode |-> "", UseEndpoint |-> <<>>]
S3Error(code, endpoint) ==
    [kind |-> "s3.Error", AmazonCode |-> code, UseEndpoint |-> endpoint]

AmazonCodes == {"NoSuchBucket", "InvalidAccessKeyId", "PermanentRedirect", "AccessDenied"}

\* What the first listing may answer for bucket b.
FirstListing(b) ==
    {NoErr, TransportErr}
    \cup {S3Error(c, e) : c \in AmazonCodes,
                          e \in {<<>>, RegionHostname, b \o <<".">> \o RegionHostname}}

\* What a retried listing may answer.
RetryListing == {NoErr, TransportErr, S3Error("AccessDenied", <<>>)}

\* A request as the service sees it: the operation, the bucket, the page
\* size asked for (0 for a location query), the host it is sent to, and
\* whether it succeeded.
Request(op, max, e) ==
    [op |-> op, bucket |-> sto[1].bucket, max |-> max,
     host |-> client[1].Hostname, ok |-> (e = NoErr)]

\* The errors the constructors return.
NoError == <<>>
Diagnostic(summary, format, arg, subject) ==
    <<[type |-> "hcl.Diagnostics", summary |-> summary, format |-> format,
       arg |-> arg, subject |-> subject, cause |-> NoErr]>>
Errorf(format, arg, cause) ==
    <<[type |-> "error", summary |-> "", format |-> format,
       arg |-> arg, subject |-> "", cause |-> cause]>>

\* strings.SplitN(s, sep, 2)
SplitN2(s, sep) ==
    LET at == {i \in 1..Len(s) : s[i] = sep}
    IN  IF at = {} THEN <<s>>
        ELSE LET i == CHOOSE j \in at : \A k \in at : j <= k
             IN  <<SubSeq(s, 1, i - 1), SubSeq(s, i + 1, Len(s))>>

\* strings.HasSuffix(s, suffix), for a suffix of one character
HasSuffix(s, c) == Len(s) > 0 /\ s[Len(s)] = c

\* strings.TrimPrefix(s, prefix)
TrimPrefix(s, prefix) ==
    IF Len(s) >= Len(prefix) /\ SubSeq(s, 1, Len(prefix)) = prefix
    THEN SubSeq(s, Len(prefix) + 1, Len(s))
    ELSE s

\* The bucket addressing, without the test for an empty dirPrefix.
splitBucketAlwaysSlash(bucket) ==
    LET parts == SplitN2(bucket, "/")
        b == IF Len(parts) > 1 THEN parts[1] ELSE bucket
        d == IF Len(parts) > 1 THEN parts[2] ELSE <<>>
    IN  [bucket |-> b,
         dirPrefix |-> IF ~HasSuffix(d, "/") THEN d \o <<"/">> ELSE d]

\* The bucket name and dirPrefix of a bucket spec.
splitBucket(bucket) ==
    LET parts == SplitN2(bucket, "/")
        b == IF Len(parts) > 1 THEN parts[1] ELSE bucket
        d == IF Len(parts) > 1 THEN parts[2] ELSE <<>>
    IN  [bucket |-> b,
         dirPrefix |-> IF d # <<>> /\ ~HasSuffix(d, "/") THEN d \o <<"/">> ELSE d]

Hostname(c) == IF c.hostname = <<>> THEN DefaultHostname ELSE c.hostname[1]
CacheSize(c) ==
    IF c.cacheSize = <<>> THEN Int64(0, DefaultCacheSize) ELSE c.cacheSize[1]
\* The startup check that no configuration can skip.
SkipStartupCheckNever(c) == FALSE

SkipStartupCheck(c) ==
    IF c.skipStartupCheck = <<>> THEN FALSE ELSE c.skipStartupCheck[1]

\* The switch on the first listing's error, without the NoSuchBucket case.
classifyNoBucketCase(c, e) ==
    IF e.kind # "s3.Error" THEN "final"
    ELSE IF c = "hcl" /\ e.AmazonCode = "InvalidAccessKeyId" THEN "InvalidAccessKeyId"
    ELSE "redirect"

\* Where the first listing's error e sends constructor c: to a return for
\* the codes it names, to the redirect handling for any other *s3.Error, to
\* the final err check otherwise.
classify(c, e) ==
    IF e.kind # "s3.Error" THEN "final"
    ELSE IF e.AmazonCode = "NoSuchBucket" THEN "NoSuchBucket"
    ELSE IF c = "hcl" /\ e.AmazonCode = "InvalidAccessKeyId" THEN "InvalidAccessKeyId"
    ELSE "redirect"

S3Start(c, cf) ==
    /\ ctor = c
    /\ config = cf
    /\ pc = "build"
    /\ client = <<>>
    /\ sto = <<>>
    /\ err = NoErr
    /\ serr = NoErr
    /\ ret = [storage |-> <<>>, err |-> NoError]
    /\ nList = 0
    /\ nLoc = 0
    /\ nRebind = 0
    /\ nWarn = 0
    /\ requests = <<>>

S3Init == \E c \in {"hcl", "json"}, cf \in Configs : S3Start(c, cf)

\* syncutil.NewGate(n): a gate of n slots, none of them held.
NewGate(n) == [capacity |-> n, held |-> 0]

\* The client with a put gate one slot too wide.
NewClientWideGate(c) ==
    [Hostname |-> Hostname(c), AccessKey |-> c.accessKey,
     PutGate |-> NewGate(maxParallelHTTP + 1)]

\* &s3.Client{Auth: ..., PutGate: syncutil.NewGate(maxParallelHTTP)}
NewClient(c) ==
    [Hostname |-> Hostname(c), AccessKey |-> c.accessKey,
     PutGate |-> NewGate(maxParallelHTTP)]

Return(storage, e) ==
    /\ ret' = [storage |-> storage, err |-> e]
    /\ pc' = "done"

\* Up to the startup check: the configuration is read, the client and the
\* storage are built. The hcl constructor returns on a decoding error before
\* it builds anything; the json one validates after it built both.
Build ==
    /\ pc = "build"
    /\ LET split == splitBucket(config.bucket)
           newClient == NewClient(config)
           newSto == [bucket |-> split.bucket, dirPrefix |-> split.dirPrefix,
                      hostname |-> Hostname(config)]
       IN  IF ctor = "hcl" /\ ~config.valid
           THEN /\ Return(<<>>, Diagnostic("decode", "", <<>>, "body"))
                /\ UNCHANGED <<client, sto>>
           ELSE /\ client' = <<newClient>>
                /\ sto' = <<newSto>>
                /\ IF ~config.valid
                   THEN Return(<<>>, Errorf("config.Validate", <<>>, NoErr))
                   ELSE /\ pc' = IF SkipStartupCheck(config) THEN "wrap" ELSE "list"
                        /\ UNCHANGED ret
    /\ UNCHANGED <<ctor, config, err, serr, nList, nLoc, nRebind, nWarn, requests>>

\* The first client.ListBucket and the switch on its error.
ListBucket ==
    /\ pc = "list"
    /\ nList' = nList + 1
    /\ \E e \in FirstListing(sto[1].bucket) :
        /\ err' = e
        /\ serr' = IF e.kind = "s3.Error" THEN e ELSE serr
        /\ requests' = Append(requests, Request("ListBucket", 1, e))
        /\ LET to == classify(ctor, e)
           IN  CASE to = "NoSuchBucket" ->
                        IF ctor = "hcl"
                        THEN Return(<<>>, Diagnostic("Invalid S3 bucket",
                                    "There is no bucket named %q.",
                                    sto[1].bucket, "bucket"))
                        ELSE Return(<<>>, Errorf("bucket %q doesn't exist",
                                    sto[1].bucket, NoErr))
                 [] to = "InvalidAccessKeyId" ->
                        Return(<<>>, Diagnostic("Invalid AWS Access Key ID",
                               "The given access key id %q was refused by the S3 API.",
                               config.accessKey, "aws_access_key_id"))
                 [] OTHER -> pc' = to /\ UNCHANGED ret
    /\ UNCHANGED <<ctor, config, client, sto, nLoc, nRebind, nWarn>>

\* if serr.AmazonCode == "PermanentRedirect": ask for the bucket's location,
\* which fails or gives a hostname to rebind to.
Redirect ==
    /\ pc = "redirect"
    /\ IF serr.AmazonCode = "PermanentRedirect"
       THEN /\ nLoc' = nLoc + 1
            /\ \/ /\ Return(<<>>, Errorf("Wrong server for bucket %q; and error determining bucket's location: %v",
                                         sto[1].bucket, TransportErr))
                  /\ requests' = Append(requests, Request("BucketLocation", 0, TransportErr))
                  /\ UNCHANGED <<client, nRebind>>
               \/ /\ client' = <<[client[1] EXCEPT !.Hostname = RegionHostname]>>
                  /\ requests' = Append(requests, Request("BucketLocation", 0, NoErr))
                  /\ nRebind' = nRebind + 1
                  /\ pc' = "relist"
                  /\ UNCHANGED ret
       ELSE /\ pc' = "endpoint"
            /\ UNCHANGED <<client, ret, nLoc, nRebind, requests>>
    /\ UNCHANGED <<ctor, config, sto, err, serr, nList, nWarn>>

\* The listing retried after the rebinding to the bucket's location.
RelistAfterLocation ==
    /\ pc = "relist"
    /\ nList' = nList + 1
    /\ \E e \in RetryListing :
        /\ err' = e
        /\ nWarn' = IF e = NoErr THEN nWarn + 1 ELSE nWarn
        /\ requests' = Append(requests, Request("ListBucket", 1, e))
    /\ pc' = "endpoint"
    /\ UNCHANGED <<ctor, config, client, sto, serr, ret, nLoc, nRebind>>

\* if serr.UseEndpoint != "": rebind to the endpoint without the bucket name.
Endpoint ==
    /\ pc = "endpoint"
    /\ IF serr.UseEndpoint # <<>>
       THEN /\ client' = <<[client[1] EXCEPT !.Hostname =
                              TrimPrefix(serr.UseEndpoint, sto[1].bucket \o <<".">>)]>>
            /\ nRebind' = nRebind + 1
            /\ pc' = "relistEndpoint"
       ELSE /\ pc' = "final"
            /\ UNCHANGED <<client, nRebind>>
    /\ UNCHANGED <<ctor, config, sto, err, serr, ret, nList, nLoc, nWarn, requests>>

\* The listing retried after the rebinding to the endpoint.
RelistAfterEndpoint ==
    /\ pc = "relistEndpoint"
    /\ nList' = nList + 1
    /\ \E e \in RetryListing :
        /\ err' = e
        /\ nWarn' = IF e = NoErr THEN nWarn + 1 ELSE nWarn
        /\ requests' = Append(requests, Request("ListBucket", 1, e))
    /\ pc' = "final"
    /\ UNCHANGED <<ctor, config, client, sto, serr, ret, nLoc, nRebind>>

\* The end of the startup check that lets a failed listing through.
FinalIgnoresErr ==
    /\ pc = "final"
    /\ pc' = "wrap"
    /\ UNCHANGED <<ctor, config, client, sto, err, serr, ret, nList, nLoc, nRebind, nWarn,
                   requests>>

\* if err != nil: return the listing error.
Final ==
    /\ pc = "final"
    /\ IF err # NoErr
       THEN Return(<<>>, Errorf("Error listing bucket %s: %v", sto[1].bucket, err))
       ELSE pc' = "wrap" /\ UNCHANGED ret
    /\ UNCHANGED <<ctor, config, client, sto, err, serr, nList, nLoc, nRebind, nWarn,
                   requests>>

\* The storage returned: behind the two caches unless cacheSize is 0.
Wrap ==
    /\ pc = "wrap"
    /\ LET cacheSize == CacheSize(config)
       IN  IF cacheSize # Int64(0, 0)
           THEN Return(<<[kind |-> "proxycache", maxCacheBytes |-> Shl2(cacheSize),
                          cache |-> <<[kind |-> "memory", maxSize |-> cacheSize]>>,
                          sto |-> sto[1], client |-> client[1]]>>, NoError)
           ELSE Return(<<[kind |-> "s3", maxCacheBytes |-> Int64(0, 0), cache |-> <<>>,
                          sto |-> sto[1], client |-> client[1]]>>, NoError)
    /\ UNCHANGED <<ctor, config, client, sto, err, serr, nList, nLoc, nRebind, nWarn,
                   requests>>

----------------------------------------------------------------------------
(* The put operations of one storage, all through the one gate of its      *)
(* client: a put waits for a slot (Gate.Start), sends, and gives the slot   *)
(* back when it completes (Gate.Done), with or without an error.            *)

NumPuts == 6

Putters == 1 .. NumPuts

GateStart(config0) ==
    /\ gate = NewClient(config0).PutGate
    /\ put = [p \in Putters |-> "idle"]

GateInit == \E cf \in Configs : GateStart(cf)

\* A put operation is called.
PutCall(p) ==
    /\ put[p] = "idle"
    /\ put' = [put EXCEPT ![p] = "waiting"]
    /\ UNCHANGED gate

\* Gate.Start returns: a slot was free and is now held by p.
PutGateStart(p) ==
    /\ put[p] = "waiting"
    /\ gate.held < gate.capacity
    /\ gate' = [gate EXCEPT !.held = @ + 1]
    /\ put' = [put EXCEPT ![p] = "sending"]

\* The request completes, well or not, and Gate.Done gives the slot back.
PutDone(p) ==
    /\ put[p] = "sending"
    /\ gate' = [gate EXCEPT !.held = @ - 1]
    /\ \E ok \in BOOLEAN : put' = [put EXCEPT ![p] = IF ok THEN "ok" ELSE "failed"]

----------------------------------------------------------------------------
(* decodeConfig: the loop over the root blocks of a configuration body. A   *)
(* block is known by its position in the body, which stands for its source  *)
(* ranges (DeclRange, TypeRange).                                           *)

MaxBlocks == 3

\* The labels of index and storage blocks.
Labels == {"s3", "fs"}

\* The blocks rootSchema lets through: their type, their label if the type
\* has one, and whether their body fails to decode.
RootBlocks ==
    [type : {"network", "identity", "server", "sync"}, label : {""}, bad : BOOLEAN]
    \cup [type : {"index", "storage"}, label : Labels, bad : {FALSE}]

\* An error diagnostic about the block at position i.
ErrorDiag(summary, i) == [severity |-> "error", summary |-> summary, subject |-> i]

\* gohcl.DecodeBody on the block's body.
DecodeBody(block, i) ==
    IF block.bad THEN <<ErrorDiag("decode", i)>> ELSE <<>>

\* The block decoders: each returns a struct, whole or not, and diagnostics.
decodeNetworkBlock(block, i) ==
    [ret |-> [DeclRange |-> i, decoded |-> ~block.bad], diags |-> DecodeBody(block, i)]

decodeIdentityBlock(block, i) ==
    [ret |-> [DeclRange |-> i, decoded |-> ~block.bad], diags |-> DecodeBody(block, i)]

decodeServerBlock(block, i) ==
    [ret |-> [DeclRange |-> i, decoded |-> ~block.bad], diags |-> DecodeBody(block, i)]

decodeSyncBlock(block, i) ==
    [ret |-> [DeclRange |-> i, decoded |-> ~block.bad], diags |-> DecodeBody(block, i)]

decodeIndexBlock(block, i) ==
    [ret |-> [Type |-> block.label, DeclRange |-> i], diags |-> <<>>]

decodeStorageBlock(block, i) ==
    [ret |-> [Type |-> block.label, DeclRange |-> i], diags |-> <<>>]

\* The test that finds no block configured yet.
IsSetNever(field) == FALSE

\* config.Network != nil, and the same for Identity, Server and Index.
IsSet(field) == field # <<>>

\* config := &Config{...}: nothing configured, a nil map, a nil slice.
NewConfig ==
    [Network |-> <<>>, Identity |-> <<>>, Server |-> <<>>, Index |-> <<>>,
     Stores |-> [l \in Labels |-> <<>>], Syncs |-> <<>>]

CfgStart(bs) ==
    /\ blocks = bs
    /\ bi = 0
    /\ cfg = NewConfig
    /\ diags = <<>>

CfgInit == \E bs \in SeqsUpTo(RootBlocks, MaxBlocks) : CfgStart(bs)

\* The block the loop is at, if there is one of the given type.
AtBlock(type) ==
    /\ bi < Len(blocks)
    /\ blocks[bi + 1].type = type

DecodeNetwork ==
    /\ AtBlock("network")
    /\ LET i == bi + 1
           r == decodeNetworkBlock(blocks[i], i)
       IN  IF IsSet(cfg.Network)
           THEN /\ diags' = Append(diags, ErrorDiag("Duplicate network block", i))
                /\ UNCHANGED cfg
           ELSE /\ diags' = diags \o r.diags
                /\ cfg' = [cfg EXCEPT !.Network = <<r.ret>>]
    /\ bi' = bi + 1
    /\ UNCHANGED blocks

DecodeIdentity ==
    /\ AtBlock("identity")
    /\ LET i == bi + 1
           r == decodeIdentityBlock(blocks[i], i)
       IN  IF IsSet(cfg.Identity)
           THEN /\ diags' = Append(diags, ErrorDiag("Duplicate identity block", i))
                /\ UNCHANGED cfg
           ELSE /\ diags' = diags \o r.diags
                /\ cfg' = [cfg EXCEPT !.Identity = <<r.ret>>]
    /\ bi' = bi + 1
    /\ UNCHANGED blocks

DecodeServer ==
    /\ AtBlock("server")
    /\ LET i == bi + 1
           r == decodeServerBlock(blocks[i], i)
       IN  IF IsSet(cfg.Server)
           THEN /\ diags' = Append(diags, ErrorDiag("Duplicate server block", i))
                /\ UNCHANGED cfg
           ELSE /\ diags' = diags \o r.diags
                /\ cfg' = [cfg EXCEPT !.Server = <<r.ret>>]
    /\ bi' = bi + 1
    /\ UNCHANGED blocks

DecodeIndex ==
    /\ AtBlock("index")
    /\ LET i == bi + 1
           r == decodeIndexBlock(blocks[i], i)
       IN  IF IsSet(cfg.Index)
           THEN /\ diags' = Append(diags, ErrorDiag("Duplicate index block", i))
                /\ UNCHANGED cfg
           ELSE /\ diags' = diags \o r.diags
                /\ cfg' = [cfg EXCEPT !.Index = <<r.ret>>]
    /\ bi' = bi + 1
    /\ UNCHANGED blocks

\* A storage block is decoded before config.Stores is looked up.
DecodeStorage ==
    /\ AtBlock("storage")
    /\ LET i == bi + 1
           r == decodeStorageBlock(blocks[i], i)
       IN  IF cfg.Stores[r.ret.Type] # <<>>
           THEN /\ diags' = Append(diags \o r.diags,
                                   ErrorDiag("Duplicate storage handler", i))
                /\ UNCHANGED cfg
           ELSE /\ diags' = diags \o r.diags
                /\ cfg' = [cfg EXCEPT !.Stores[r.ret.Type] = <<r.ret>>]
    /\ bi' = bi + 1
    /\ UNCHANGED blocks

DecodeSync ==
    /\ AtBlock("sync")
    /\ LET i == bi + 1
           r == decodeSyncBlock(blocks[i], i)
       IN  /\ diags' = diags \o r.diags
           /\ cfg' = [cfg EXCEPT !.Syncs = Append(@, r.ret)]
    /\ bi' = bi + 1
    /\ UNCHANGED blocks

----------------------------------------------------------------------------
(* extractVars: the loop over the vars blocks of a body and, in each, over  *)
(* its attributes in the order the map gives them, which is any order. A    *)
(* definition is known by its block's position and its name, which stand    *)
(* for its source range and for its value.                                  *)

MaxVarBlocks == 2

VarNames == {"x", "y"}

\* What a vars block says of a name: nothing ("none"), a definition that
\* decodes ("ok"), one that refers to var.* ("ref"), or one that refers to no
\* user variable and fails to decode ("bad").
VarBlocks == [VarNames -> {"none", "ok", "ref", "bad"}]

\* The value a definition decodes to, and its attr.NameRange.
ValueOf(i, name) == <<"value", i, name>>
NameRange(i, name) == <<i, name>>

VarsStart(bs) ==
    /\ vblocks = bs
    /\ vbi = 0
    /\ vdone = {}
    /\ vs = [n \in VarNames |-> <<>>]
    /\ decls = [n \in VarNames |-> <<>>]
    /\ vdiags = <<>>

VarsInit == \E bs \in SeqsUpTo(VarBlocks, MaxVarBlocks) : VarsStart(bs)

\* The inner loop is at the attribute name of the current block.
AtAttr(name) ==
    /\ vbi < Len(vblocks)
    /\ vblocks[vbi + 1][name] # "none"
    /\ name \notin vdone

\* if rng, ok := decls[name]; ok: the duplicate is reported and skipped.
VarDuplicate(name) ==
    /\ AtAttr(name)
    /\ decls[name] # <<>>
    /\ vdiags' = Append(vdiags, ErrorDiag("Duplicate variable definition",
                                          NameRange(vbi + 1, name)))
    /\ vdone' = vdone \cup {name}
    /\ UNCHANGED <<vblocks, vbi, vs, decls>>

\* ref.RootName() == "var": the definition is reported and skipped
\* (continue Vars), before decls[name] is assigned.
VarInvalidRef(name) ==
    /\ AtAttr(name)
    /\ decls[name] = <<>>
    /\ vblocks[vbi + 1][name] = "ref"
    /\ vdiags' = Append(vdiags, ErrorDiag("Invalid reference in user variable",
                                          NameRange(vbi + 1, name)))
    /\ vdone' = vdone \cup {name}
    /\ UNCHANGED <<vblocks, vbi, vs, decls>>

\* gohcl.DecodeExpression: the definition is recorded in decls, and its
\* value in vs unless the decoding had errors.
VarDecode(name) ==
    /\ AtAttr(name)
    /\ decls[name] = <<>>
    /\ vblocks[vbi + 1][name] \in {"ok", "bad"}
    /\ LET i == vbi + 1
           hasErrors == vblocks[i][name] = "bad"
       IN  /\ vdiags' = IF hasErrors
                        THEN Append(vdiags, ErrorDiag("decode", NameRange(i, name)))
                        ELSE vdiags
           /\ decls' = [decls EXCEPT ![name] = <<NameRange(i, name)>>]
           /\ vs' = IF hasErrors THEN vs
                    ELSE [vs EXCEPT ![name] = <<ValueOf(i, name)>>]
    /\ vdone' = vdone \cup {name}
    /\ UNCHANGED <<vblocks, vbi>>

\* The inner loop is through the attributes of the block: the next block.
VarNextBlock ==
    /\ vbi < Len(vblocks)
    /\ \A n \in VarNames : vblocks[vbi + 1][n] # "none" => n \in vdone
    /\ vbi' = vbi + 1
    /\ vdone' = {}
    /\ UNCHANGED <<vblocks, vs, decls, vdiags>>

----------------------------------------------------------------------------
(* Specifications *)

SnifferIdle ==
    /\ sn = NewBlobSniffer(TheRef)
    /\ stream = <<>>
    /\ lastOp = "new"
    /\ nParse = 0

ChunkIdle == ChunkStart(<<>>)

S3Idle == S3Start("hcl", CHOOSE cf \in Configs : TRUE)

GateIdle == GateStart(CHOOSE cf \in Configs : TRUE)

CfgIdle == CfgStart(<<>>)

VarsIdle == VarsStart(<<>>)

\* One sniffer, any calls.
Init == SnifferInit /\ ChunkIdle /\ S3Idle /\ GateIdle /\ CfgIdle /\ VarsIdle

Next ==
    \/ SnifferWrite /\ UNCHANGED exceptSniffer
    \/ SnifferParse /\ UNCHANGED exceptSniffer

Spec == Init /\ [][Next]_vars

\* Two sniffers, the same bytes.
InitChunk == ChunkInit /\ SnifferIdle /\ S3Idle /\ GateIdle /\ CfgIdle /\ VarsIdle

NextChunk ==
    \/ ChunkWriteA /\ UNCHANGED exceptChunk
    \/ ChunkTurn /\ UNCHANGED exceptChunk
    \/ ChunkWriteB /\ UNCHANGED exceptChunk
    \/ ChunkParseA /\ UNCHANGED exceptChunk
    \/ ChunkParseB /\ UNCHANGED exceptChunk

SpecChunk == InitChunk /\ [][NextChunk]_vars

\* One construction of the s3 storage, by either constructor.
InitS3 == S3Init /\ SnifferIdle /\ ChunkIdle /\ GateIdle /\ CfgIdle /\ VarsIdle

NextS3 ==
    \/ Build /\ UNCHANGED exceptS3
    \/ ListBucket /\ UNCHANGED exceptS3
    \/ Redirect /\ UNCHANGED exceptS3
    \/ RelistAfterLocation /\ UNCHANGED exceptS3
    \/ Endpoint /\ UNCHANGED exceptS3
    \/ RelistAfterEndpoint /\ UNCHANGED exceptS3
    \/ Final /\ UNCHANGED exceptS3
    \/ Wrap /\ UNCHANGED exceptS3

SpecS3 == InitS3 /\ [][NextS3]_vars

\* The put operations of one storage.
InitGate == GateInit /\ SnifferIdle /\ ChunkIdle /\ S3Idle /\ CfgIdle /\ VarsIdle

NextGate ==
    \/ \E p \in Putters : PutCall(p) /\ UNCHANGED exceptGate
    \/ \E p \in Putters : PutGateStart(p) /\ UNCHANGED exceptGate
    \/ \E p \in Putters : PutDone(p) /\ UNCHANGED exceptGate

SpecGate == InitGate /\ [][NextGate]_vars

\* One call of decodeConfig.
InitCfg == CfgInit /\ SnifferIdle /\ ChunkIdle /\ S3Idle /\ GateIdle /\ VarsIdle

NextCfg ==
    \/ DecodeNetwork /\ UNCHANGED exceptCfg
    \/ DecodeIdentity /\ UNCHANGED exceptCfg
    \/ DecodeServer /\ UNCHANGED exceptCfg
    \/ DecodeIndex /\ UNCHANGED exceptCfg
    \/ DecodeStorage /\ UNCHANGED exceptCfg
    \/ DecodeSync /\ UNCHANGED exceptCfg

SpecCfg == InitCfg /\ [][NextCfg]_vars

\* One call of extractVars.
InitVars ==
    VarsInit /\ SnifferIdle /\ ChunkIdle /\ S3Idle /\ GateIdle /\ CfgIdle

NextVars ==
    \/ \E n \in VarNames : VarDuplicate(n) /\ UNCHANGED exceptVars
    \/ \E n \in VarNames : VarInvalidRef(n) /\ UNCHANGED exceptVars
    \/ \E n \in VarNames : VarDecode(n) /\ UNCHANGED exceptVars
    \/ VarNextBlock /\ UNCHANGED exceptVars

SpecVars == InitVars /\ [][NextVars]_vars

----------------------------------------------------------------------------
(* Properties of the sniffer *)

\* The first min(Len(s), n) elements of s.
Prefix(s, n) == SubSeq(s, 1, Min(Len(s), n))

\* C1: after any sequence of Write calls, Size() is the sum of the lengths
\* of all the slices passed to Write, dropped bytes included.
C1_SizeIsTotalWritten == Size(sn) = Len(stream)

\* A sniffer that was written more than it retains.
C1_Witness ==
    /\ lastOp = "write"
    /\ Len(stream) > MaxSchemaBlobSize
    /\ Len(sn.contents) < Len(stream)
    /\ Size(sn) = Len(stream)

\* C2: IsTruncated() is true exactly when the total written is strictly
\* greater than the cap: exactly cap bytes is not truncated, cap+1 is.
C2_TruncatedIffOverCap ==
    /\ IsTruncated(sn) <=> (Len(stream) > MaxSchemaBlobSize)
    /\ Len(stream) = MaxSchemaBlobSize => ~IsTruncated(sn)
    /\ Len(stream) = MaxSchemaBlobSize + 1 => IsTruncated(sn)

\* One byte over the cap, and truncated.
C2_Witness ==
    /\ lastOp = "write"
    /\ Len(stream) = MaxSchemaBlobSize + 1
    /\ IsTruncated(sn)

\* C3: Body() fails, with no bytes, exactly when the sniffer is truncated;
\* otherwise it returns every byte written, in call order.
C3_BodyOrTruncatedError ==
    LET b == Body(sn)
    IN  /\ (b.err # <<>>) <=> IsTruncated(sn)
        /\ (b.err # <<>>) <=> (Len(stream) > MaxSchemaBlobSize)
        /\ b.err # <<>> => b.bytes = <<>>
        /\ b.err = <<>> => b.bytes = stream

\* A full buffer that is not truncated: Body() returns all cap bytes.
C3_Witness ==
    /\ lastOp = "write"
    /\ Len(stream) = MaxSchemaBlobSize
    /\ Body(sn).err = <<>>
    /\ Body(sn).bytes = stream

\* C4: the retained buffer is the first min(total written, cap) bytes of
\* the written stream.
C4_BufferIsCappedPrefix ==
    /\ Len(sn.contents) = Min(Len(stream), MaxSchemaBlobSize)
    /\ sn.contents = Prefix(stream, MaxSchemaBlobSize)

\* More was written than the cap, and the buffer holds the first cap bytes.
C4_Witness ==
    /\ lastOp = "write"
    /\ Len(stream) = MaxWritten
    /\ Len(sn.contents) = MaxSchemaBlobSize
    /\ sn.contents # stream

\* C5: two sniffers for the same ref that were written the same bytes, in
\* whatever splits, agree on Size(), IsTruncated() and Body(), and after
\* Parse() on MIMEType(), CamliType() and SchemaBlob().
C5_ChunkingIndependence ==
    /\ (posA = Len(data) /\ posB = Len(data)) =>
            /\ Size(snA) = Size(snB)
            /\ IsTruncated(snA) = IsTruncated(snB)
            /\ Body(snA) = Body(snB)
    /\ phase = "done" =>
            /\ MIMEType(snA) = MIMEType(snB)
            /\ CamliType(snA) = CamliType(snB)
            /\ SchemaBlob(snA) = SchemaBlob(snB)

\* One call against several, of bytes that straddle the cap.
C5_Witness ==
    /\ phase = "done"
    /\ callsA = 1
    /\ callsB = 2
    /\ Len(data) > MaxSchemaBlobSize
    /\ IsTruncated(snB)

\* What the first Parse() of a sniffer whose buffer is buf must leave.
Classified(s, buf) ==
    LET r == BlobFromReader(s.br, buf)
    IN  IF LikelySchemaBlob(buf) /\ r.ok
        THEN /\ CamliType(s) = Type(r.blob)
             /\ MIMEType(s) = <<"application/json; camliType=">> \o Type(r.blob)
             /\ SchemaBlob(s).ok
             /\ SchemaBlob(s).meta = <<r.blob>>
        ELSE /\ CamliType(s) = <<>>
             /\ ~SchemaBlob(s).ok
             /\ MIMEType(s) = MagicMIMEType(buf)

\* C6: right after the first Parse(), a buffer that passes the pre-check and
\* decodes gives the document's type, the composite MIME type and a schema
\* blob; any other buffer gives no type, no schema blob and the magic sniff.
C6_ParseClassification ==
    (lastOp = "parse" /\ nParse = 1) => Classified(sn, sn.contents)

\* A document that decodes but fails the pre-check: classified by magic.
C6_Witness ==
    /\ lastOp = "parse"
    /\ nParse = 1
    /\ ~LikelySchemaBlob(sn.contents)
    /\ BlobFromReader(sn.br, sn.contents).ok
    /\ ~SchemaBlob(sn).ok

\* C7 (as claimed): the first Parse() of a truncated sniffer never yields
\* the structured classification; its MIME type is the magic sniff.
C7_TruncatedNeverStructured ==
    (lastOp = "parse" /\ nParse = 1 /\ IsTruncated(sn)) =>
        /\ CamliType(sn) = <<>>
        /\ ~SchemaBlob(sn).ok
        /\ MIMEType(sn) = MagicMIMEType(sn.contents)

\* The MIME type of a schema blob: "application/json; camliType=" and a type.
HasCamliForm(m) == Len(m) > 0 /\ m[1] = "application/json; camliType="

\* The three results of a classification tell the same story.
Agree(s) ==
    /\ SchemaBlob(s).ok <=> (CamliType(s) # <<>>)
    /\ SchemaBlob(s).ok <=> HasCamliForm(MIMEType(s))

\* C17 (as claimed): MIMEType() and CamliType() are empty before the first
\* Parse(); once Parse() was called, no later Write or Parse changes
\* MIMEType(), CamliType() or SchemaBlob(); and after a Parse() the three
\* agree.
C17_ResolvedOnce ==
    [][/\ nParse = 0 => (MIMEType(sn) = <<>> /\ CamliType(sn) = <<>>)
       /\ nParse >= 1 => /\ MIMEType(sn') = MIMEType(sn)
                         /\ CamliType(sn') = CamliType(sn)
                         /\ SchemaBlob(sn') = SchemaBlob(sn)
       /\ nParse' >= 1 => Agree(sn')]_vars

----------------------------------------------------------------------------
(* Properties of the s3 storage constructors *)

HasSlash(s) == \E i \in 1..Len(s) : s[i] = "/"

\* The part of a bucket spec before its first "/" (all of it without one).
BeforeFirstSlash(spec) ==
    LET n == CHOOSE k \in 0..Len(spec) :
                 /\ \A i \in 1..k : spec[i] # "/"
                 /\ k = Len(spec) \/ spec[k + 1] = "/"
    IN  SubSeq(spec, 1, n)

\* The part of a bucket spec after its first "/" ("" without one).
AfterFirstSlash(spec) ==
    SubSeq(spec, Len(BeforeFirstSlash(spec)) + 2, Len(spec))

\* C8: both constructors split the bucket spec on its first "/" only: the
\* bucket name is the part before it and holds no "/"; the key prefix is the
\* remainder, with a "/" appended only when it is non-empty and does not end
\* with one, so it is empty or ends with "/".
C8_BucketAddressing ==
    sto # <<>> =>
        LET b == sto[1].bucket
            p == sto[1].dirPrefix
            rest == AfterFirstSlash(config.bucket)
        IN  /\ b = BeforeFirstSlash(config.bucket)
            /\ ~HasSlash(b)
            /\ p = IF rest = <<>> \/ rest[Len(rest)] = "/"
                   THEN rest
                   ELSE rest \o <<"/">>
            /\ p = <<>> \/ p[Len(p)] = "/"
            /\ ~HasSlash(config.bucket) => (b = config.bucket /\ p = <<>>)

\* "m/a" gives bucket "m" and prefix "a/" in the storage returned.
C8_Witness ==
    /\ pc = "done"
    /\ config.bucket = <<"m", "/", "a">>
    /\ ret.storage # <<>>
    /\ ret.storage[1].sto.bucket = <<"m">>
    /\ ret.storage[1].sto.dirPrefix = <<"a", "/">>

\* C9: when the first listing answers NoSuchBucket, construction has failed
\* with an error that names the bucket, and there was no rebinding, no
\* location query and no second listing.
C9_MissingBucketFails ==
    (serr.kind = "s3.Error" /\ serr.AmazonCode = "NoSuchBucket") =>
        /\ pc = "done"
        /\ ret.storage = <<>>
        /\ ret.err # NoError
        /\ ret.err[1].format \in {"There is no bucket named %q.",
                                  "bucket %q doesn't exist"}
        /\ ret.err[1].arg = BeforeFirstSlash(config.bucket)
        /\ nList = 1
        /\ nLoc = 0
        /\ nRebind = 0
        /\ client[1].Hostname = Hostname(config)

\* NoSuchBucket with an endpoint suggested, for a bucket spec with a prefix.
C9_Witness ==
    /\ pc = "done"
    /\ serr.AmazonCode = "NoSuchBucket"
    /\ serr.UseEndpoint # <<>>
    /\ HasSlash(config.bucket)
    /\ ret.err # NoError
    /\ ret.err[1].arg = <<"m">>

\* C10 (as claimed): when the first listing answers InvalidAccessKeyId,
\* either constructor fails with a configuration error that reports the
\* access key id as the rejected field, and returns no backend.
C10_InvalidKeyReported ==
    (pc = "done" /\ serr.kind = "s3.Error" /\ serr.AmazonCode = "InvalidAccessKeyId") =>
        /\ ret.storage = <<>>
        /\ ret.err # NoError
        /\ ret.err[1].subject = "aws_access_key_id"
        /\ ret.err[1].arg = config.accessKey

\* C11 (as claimed): one construction rebinds the client's hostname at most
\* once and sends at most two listing requests, the first one and one retry,
\* whatever the first listing's error and whatever the retries answer.
C11_AtMostOneRebind ==
    /\ nRebind <= 1
    /\ nList <= 2

\* The requests of one construction, by position: the first listing, then
\* after a PermanentRedirect the location query and the listing retried.
LocationSucceeded ==
    /\ Len(requests) >= 2
    /\ requests[2].op = "BucketLocation"
    /\ requests[2].ok

RetryAfterLocationSucceeded ==
    /\ LocationSucceeded
    /\ Len(requests) >= 3
    /\ requests[3].ok

LastRequest == requests[Len(requests)]

\* C12 (as claimed): after a PermanentRedirect, a location L and a retried
\* listing that succeeds, construction succeeds after exactly one retry with
\* the client at L; after an error carrying UseEndpoint E, the client is at E
\* without the leading bucket+".", and construction succeeds if the retry
\* succeeds.
C12_RedirectRecovery ==
    pc = "done" =>
        /\ (serr.kind = "s3.Error" /\ serr.AmazonCode = "PermanentRedirect"
                /\ RetryAfterLocationSucceeded) =>
              /\ ret.storage # <<>>
              /\ nList = 2
              /\ ret.storage[1].client.Hostname = RegionHostname
        /\ (serr.kind = "s3.Error" /\ serr.UseEndpoint # <<>>
                /\ LastRequest.op = "ListBucket" /\ Len(requests) > 1) =>
              /\ client[1].Hostname =
                    TrimPrefix(serr.UseEndpoint, sto[1].bucket \o <<".">>)
              /\ LastRequest.host = client[1].Hostname
              /\ LastRequest.ok => ret.storage # <<>>

C14_StartupCheckOrdering ==
    /\ (config.skipStartupCheck # <<TRUE>> /\ pc \in {"wrap", "done"}
            /\ (pc = "done" => ret.storage # <<>>)) =>
          /\ requests # <<>>
          /\ requests[1].op = "ListBucket"
          /\ requests[1].max = 1
          /\ requests[1].bucket = sto[1].bucket
    /\ config.skipStartupCheck = <<TRUE>> =>
          /\ requests = <<>>
          /\ nList = 0
          /\ nLoc = 0
          /\ nRebind = 0
          /\ client # <<>> => client[1].Hostname = Hostname(config)

\* A backend returned with the check left at its default, after one listing.
C14_Witness ==
    /\ pc = "done"
    /\ config.skipStartupCheck = <<>>
    /\ ret.storage # <<>>
    /\ Len(requests) = 1
    /\ requests[1].op = "ListBucket"
    /\ requests[1].ok

\* C15 (as claimed): a successful construction returns the bare backend if
\* the cache size c is 0 (32 MiB when unset), and otherwise the two caches,
\* the outer one of capacity exactly 4*c, the inner one of capacity c, the
\* outer capacity above the inner one, for every 64-bit c.
C15_CacheSizing ==
    (pc = "done" /\ ret.storage # <<>>) =>
        LET c == IF config.cacheSize = <<>>
                 THEN Int64(0, DefaultCacheSize)
                 ELSE config.cacheSize[1]
            st == ret.storage[1]
        IN  IF c = Int64(0, 0)
            THEN st.kind = "s3" /\ st.cache = <<>>
            ELSE /\ st.kind = "proxycache"
                 /\ st.maxCacheBytes = Int64(4 * c.q, 4 * c.r)
                 /\ st.cache = <<[kind |-> "memory", maxSize |-> c]>>
                 /\ Less64(st.cache[1].maxSize, st.maxCacheBytes)

Sending == {p \in Putters : put[p] = "sending"}

\* C16: the storage's client has one put gate of maxParallelHTTP = 5 slots;
\* at most 5 puts send at once; the slots held are those of the puts that
\* are sending, so a put that completed, well or not, holds none; and while
\* 5 are sending no waiting put can get through the gate.
C16_UploadConcurrencyBound ==
    /\ gate.capacity = 5
    /\ gate.capacity = maxParallelHTTP
    /\ Cardinality(Sending) <= 5
    /\ gate.held = Cardinality(Sending)
    /\ Cardinality(Sending) = 5 =>
          \A p \in Putters : put[p] = "waiting" => ~ENABLED PutGateStart(p)

\* Five puts sending, a sixth waiting at the gate, none completed yet.
C16_Witness ==
    /\ Cardinality(Sending) = 5
    /\ \E p \in Putters : put[p] = "waiting"
    /\ gate.held = gate.capacity

\* C18 (as claimed): in every backend returned, the hostname field of the
\* storage (the one String() reports) is the hostname of its client.
C18_HostnameConsistent ==
    (pc = "done" /\ ret.storage # <<>>) =>
        ret.storage[1].sto.hostname = ret.storage[1].client.Hostname

----------------------------------------------------------------------------
(* Properties of decodeConfig *)

\* The positions of the blocks the loop has been through: all of them, those
\* of one type, and the storage blocks of one label.
Through == 1 .. bi
OfType(t) == {i \in Through : blocks[i].type = t}
StorageOf(l) == {i \in OfType("storage") : blocks[i].label = l}

FirstOf(S) == CHOOSE i \in S : \A j \in S : i <= j

\* The positions that come after another block of their kind, and the
\* summary of the diagnostic each of them is due.
Duplicates ==
    [i \in {j \in Through : blocks[j].type # "sync"} |->
        LET t == blocks[i].type
            kind == IF t = "storage" THEN StorageOf(blocks[i].label) ELSE OfType(t)
        IN  IF i = FirstOf(kind) THEN ""
            ELSE IF t = "storage" THEN "Duplicate storage handler"
            ELSE "Duplicate " \o t \o " block"]

DiagsAbout(i) == {j \in DOMAIN diags : diags[j].subject = i}

\* C19: at every point of the loop, the Config holds for network, identity,
\* server and index the first block of that type gone through, in Stores the
\* first storage block of each label, and in Syncs every sync block in
\* source order; and every block after the first of its kind has added
\* exactly one diagnostic, the error "Duplicate ...", and nothing else.
C19_FirstBlockWins ==
    /\ cfg.Network = IF OfType("network") = {} THEN <<>>
                     ELSE LET f == FirstOf(OfType("network"))
                          IN  <<decodeNetworkBlock(blocks[f], f).ret>>
    /\ cfg.Identity = IF OfType("identity") = {} THEN <<>>
                      ELSE LET f == FirstOf(OfType("identity"))
                           IN  <<decodeIdentityBlock(blocks[f], f).ret>>
    /\ cfg.Server = IF OfType("server") = {} THEN <<>>
                    ELSE LET f == FirstOf(OfType("server"))
                         IN  <<decodeServerBlock(blocks[f], f).ret>>
    /\ cfg.Index = IF OfType("index") = {} THEN <<>>
                   ELSE LET f == FirstOf(OfType("index"))
                        IN  <<decodeIndexBlock(blocks[f], f).ret>>
    /\ \A l \in Labels :
          cfg.Stores[l] = IF StorageOf(l) = {} THEN <<>>
                          ELSE LET f == FirstOf(StorageOf(l))
                               IN  <<decodeStorageBlock(blocks[f], f).ret>>
    /\ Len(cfg.Syncs) = Cardinality(OfType("sync"))
    /\ \A k \in DOMAIN cfg.Syncs :
          LET i == cfg.Syncs[k].DeclRange
          IN  /\ i \in OfType("sync")
              /\ cfg.Syncs[k] = decodeSyncBlock(blocks[i], i).ret
              /\ k > 1 => cfg.Syncs[k - 1].DeclRange < i
    /\ \A i \in DOMAIN Duplicates :
          IF Duplicates[i] = ""
          THEN \A j \in DiagsAbout(i) : diags[j].summary = "decode"
          ELSE /\ Cardinality(DiagsAbout(i)) = 1
               /\ \A j \in DiagsAbout(i) :
                     diags[j] = ErrorDiag(Duplicates[i], i)

\* Three storage blocks of one label, the first of them in Stores and one
\* diagnostic for each of the other two.
C19_Witness ==
    /\ bi = 3
    /\ Len(blocks) = 3
    /\ \A i \in 1 .. 3 : blocks[i].type = "storage" /\ blocks[i].label = "s3"
    /\ cfg.Stores["s3"] = <<[Type |-> "s3", DeclRange |-> 1]>>
    /\ cfg.Stores["fs"] = <<>>
    /\ Len(diags) = 2
    /\ diags[1] = ErrorDiag("Duplicate storage handler", 2)
    /\ diags[2] = ErrorDiag("Duplicate storage handler", 3)

----------------------------------------------------------------------------
(* Properties of extractVars *)

\* The blocks whose definition of name the loops have been through.
DefsThrough(name) ==
    {i \in 1 .. Len(vblocks) :
        /\ vblocks[i][name] # "none"
        /\ i <= vbi \/ (i = vbi + 1 /\ name \in vdone)}

\* C20 (as claimed): every definition of a name after its first one has a
\* "Duplicate variable definition" error, and the map holds no value of a
\* later definition, whatever became of the first definition.
C20_DuplicateVariables ==
    \A name \in VarNames :
        LET defs == DefsThrough(name)
        IN  /\ \A i \in defs :
                  i # FirstOf(defs) =>
                      \E j \in DOMAIN vdiags :
                          vdiags[j] = ErrorDiag("Duplicate variable definition",
                                                NameRange(i, name))
            /\ vs[name] # <<>> => vs[name] = <<ValueOf(FirstOf(defs), name)>>

====
